---- MODULE Spec2Model ----
(***************************************************************************)
(* polyeval: Horner and Estrin polynomial evaluation.                      *)
(*                                                                         *)
(* The model covers src/src/lib.rs:                                        *)
(*   - the runtime functions horner and horner_array (an rfold over the    *)
(*     coefficient slice), stepped one coefficient at a time;              *)
(*   - the macro_rules! macros horner!, horner_fma!, estrin! and           *)
(*     estrin_fma!, expanded rule by rule (first matching rule wins) into  *)
(*     an expression tree, which is then evaluated left to right.          *)
(*                                                                         *)
(* Arithmetic is that of the instantiating type T: "exact" is an           *)
(* unbounded integer, "checked" is i8 built with overflow checks (an       *)
(* overflowing + or * panics), "wrapping" is i8 built without them.        *)
(***************************************************************************)
EXTENDS Integers, Sequences, FiniteSets, TLC

\* Longest literal coefficient list / coefficient slice explored.
MaxLen == 5

\* Coefficient values and evaluation points the inputs are drawn from.
CoeffVals == {-1, 0, 3}
Points == {-3, 2, 16}
Modes == {"exact", "checked", "wrapping"}
MacroNames == {"horner!", "horner_fma!", "estrin!", "estrin_fma!"}
FnNames == {"horner", "horner_array"}

CoeffLists == UNION {[1..n -> CoeffVals] : n \in 0..MaxLen}

-----------------------------------------------------------------------------
(* Arithmetic of the numeric type T *)

InRange(v) == v >= -128 /\ v <= 127

WrapI8(v) == ((v + 128) % 256) - 128

\* An arithmetic whose overflow panics whatever the build.
ArithAlwaysChecked(m, v) ==
    IF m = "exact" \/ InRange(v) THEN [ok |-> TRUE, v |-> v]
    ELSE [ok |-> FALSE, v |-> 0]

\* The outcome of one + or * whose mathematical result is v.
Arith(m, v) ==
    IF m = "exact" \/ InRange(v) THEN [ok |-> TRUE, v |-> v]
    ELSE IF m = "checked" THEN [ok |-> FALSE, v |-> 0]
    ELSE [ok |-> TRUE, v |-> WrapI8(v)]

\* T::zero()
Zero == 0

-----------------------------------------------------------------------------
(* Expression trees produced by the macros *)

\* The i-th literal coefficient of the invocation, of value v.
Lit(i, v) == [op |-> "lit", i |-> i, v |-> v]
\* One occurrence of the caller's evaluation-point expression ($x).
Pt == [op |-> "pt"]
\* The macro-hygienic local `x` introduced by the k-th `let x = ...`.
Var(k) == [op |-> "var", k |-> k]
Add(l, r) == [op |-> "add", l |-> l, r |-> r]
Mul(l, r) == [op |-> "mul", l |-> l, r |-> r]
\* $crate::mul_add(s, a, b) = s.mul_add(a, b) = s * a + b
MulAdd(s, a, b) == [op |-> "mul_add", s |-> s, a |-> a, b |-> b]
\* An array literal [e1, ..., ek]: what a bracketed group is as an `expr`.
Arr(es) == [op |-> "arr", es |-> es]
\* {{ let x = init; body }} with x the k-th hygienic local.
Block(k, init, body) == [op |-> "block", k |-> k, init |-> init, body |-> body]
NoExpr == [op |-> "none"]

RECURSIVE CountOp(_, _)
\* Number of nodes of kind o in e.
CountOp(e, o) ==
    (IF e.op = o THEN 1 ELSE 0) +
    ( CASE e.op \in {"add", "mul"} -> CountOp(e.l, o) + CountOp(e.r, o)
        [] e.op = "mul_add" -> CountOp(e.s, o) + CountOp(e.a, o) + CountOp(e.b, o)
        [] e.op = "block" -> CountOp(e.init, o) + CountOp(e.body, o)
        [] OTHER -> 0 )

RECURSIVE CountLit(_, _)
\* Number of occurrences of the i-th coefficient in e.
CountLit(e, i) ==
    CASE e.op = "lit" -> IF e.i = i THEN 1 ELSE 0
      [] e.op \in {"add", "mul"} -> CountLit(e.l, i) + CountLit(e.r, i)
      [] e.op = "mul_add" -> CountLit(e.s, i) + CountLit(e.a, i) + CountLit(e.b, i)
      [] e.op = "block" -> CountLit(e.init, i) + CountLit(e.body, i)
      [] OTHER -> 0

RECURSIVE IsNumeric(_)
\* e is built from coefficients, the point and arithmetic only (no array).
IsNumeric(e) ==
    CASE e.op \in {"lit", "pt", "var"} -> TRUE
      [] e.op \in {"add", "mul"} -> IsNumeric(e.l) /\ IsNumeric(e.r)
      [] e.op = "mul_add" -> IsNumeric(e.s) /\ IsNumeric(e.a) /\ IsNumeric(e.b)
      [] e.op = "block" -> IsNumeric(e.init) /\ IsNumeric(e.body)
      [] OTHER -> FALSE

\* Outcome of evaluating two operands in order and combining their values v.
Then2(m, l, r, v) ==
    IF ~r.ok THEN [ok |-> FALSE, v |-> 0, calls |-> l.calls + r.calls]
    ELSE LET a == Arith(m, v)
         IN  [ok |-> a.ok, v |-> a.v, calls |-> l.calls + r.calls]

RECURSIVE Eval(_, _, _, _)
\* Rust evaluation of e, operands left to right: [ok, v, calls] where ok is
\* FALSE when an arithmetic overflow panicked, v is the value and calls is
\* how many times the caller's point expression was evaluated before the
\* evaluation ended.  env[k] is the value of the k-th hygienic local.
Eval(e, env, x, m) ==
    CASE e.op = "lit" -> [ok |-> TRUE, v |-> e.v, calls |-> 0]
      [] e.op = "pt"  -> [ok |-> TRUE, v |-> x, calls |-> 1]
      [] e.op = "var" -> [ok |-> TRUE, v |-> env[e.k], calls |-> 0]
      [] e.op \in {"add", "mul"} ->
            LET l == Eval(e.l, env, x, m)
            IN  IF ~l.ok THEN l
                ELSE LET r == Eval(e.r, env, x, m)
                     IN  Then2(m, l, r, IF e.op = "add" THEN l.v + r.v ELSE l.v * r.v)
      [] e.op = "mul_add" ->
            LET s == Eval(e.s, env, x, m)
            IN  IF ~s.ok THEN s
                ELSE LET a == Eval(e.a, env, x, m)
                         sa == [ok |-> a.ok, v |-> 0, calls |-> s.calls + a.calls]
                     IN  IF ~a.ok THEN sa
                         ELSE LET b == Eval(e.b, env, x, m)
                                  p == Arith(m, s.v * a.v)
                                  n == sa.calls + b.calls
                              IN  IF ~b.ok \/ ~p.ok
                                  THEN [ok |-> FALSE, v |-> 0, calls |-> n]
                                  ELSE LET q == Arith(m, p.v + b.v)
                                       IN [ok |-> q.ok, v |-> q.v, calls |-> n]
      [] e.op = "block" ->
            LET i == Eval(e.init, env, x, m)
            IN  IF ~i.ok THEN i
                ELSE LET b == Eval(e.body, [env EXCEPT ![e.k] = i.v], x, m)
                     IN  [ok |-> b.ok, v |-> b.v, calls |-> i.calls + b.calls]

Env0 == [k \in 1..(MaxLen + 2) |-> 0]

-----------------------------------------------------------------------------
(* State *)

VARIABLES
    pc,      \* "expand", "expanded", "rejected", "evaluated" (macro use);
             \* "fold", "returned", "panicked" (function call)
    call,    \* what was written: [kind, name, letp, form, trail]
    coeffs,  \* the coefficient values a0..a(n-1) of the call
    inv,     \* the macro invocation being expanded
    frames,  \* the expression around that invocation, outermost first
    expr,    \* the finished expansion
    passIn,  \* point and coefficient list at the start of the Estrin pass
    x,       \* value of the evaluation point
    mode,    \* arithmetic of T
    res,     \* outcome of the evaluation: [ok, v, calls]
    acc,     \* rfold accumulator
    idx      \* coefficients the slice iterator has not yet yielded from the back

vars == <<pc, call, coeffs, inv, frames, expr, passIn, x, mode, res, acc, idx>>

NoRes == [ok |-> TRUE, v |-> 0, calls |-> 0]
NoInv == [letp |-> FALSE, x |-> Pt, form |-> "bare", cs |-> <<>>,
          trail |-> FALSE, semi |-> FALSE, out |-> <<>>]
NoPass == [x |-> Pt, cs |-> <<>>]

IsHorner(name) == name \in {"horner!", "horner_fma!"}
IsEstrin(name) == name \in {"estrin!", "estrin_fma!"}

-----------------------------------------------------------------------------
(* Runtime functions horner and horner_array *)

\* The fold closure |acc, c| acc * &x + c.
Closure(m, a, xv, c) ==
    LET p == Arith(m, a * xv)
    IN  IF ~p.ok THEN p ELSE Arith(m, p.v + c)

\* An iterator consumed from the front (fold instead of rfold).
NextFront(cs, i) == cs[Len(cs) - i + 1]

\* next_back() of the slice iterator with i coefficients left: the last of them.
NextBack(cs, i) == cs[i]

\* A fold seeded with the multiplicative identity instead of zero.
FoldInitOne(cs) == [acc |-> 1, idx |-> Len(cs)]

\* coeffs.iter().rfold(T::zero(), ...): the accumulator starts at zero and the
\* iterator is consumed from the back.
FoldInit(cs) == [acc |-> Zero, idx |-> Len(cs)]

\* rfold takes the next coefficient from the back and applies the closure.
FoldStep ==
    /\ pc = "fold"
    /\ idx >= 1
    /\ LET r == Closure(mode, acc, x, NextBack(coeffs, idx))
       IN  IF r.ok
           THEN /\ acc' = r.v
                /\ idx' = idx - 1
                /\ UNCHANGED <<pc, res>>
           ELSE /\ pc' = "panicked"
                /\ res' = [ok |-> FALSE, v |-> 0, calls |-> 0]
                /\ UNCHANGED <<acc, idx>>
    /\ UNCHANGED <<call, coeffs, inv, frames, expr, passIn, x, mode>>

\* The iterator is exhausted: rfold returns the accumulator.
FoldReturn ==
    /\ pc = "fold"
    /\ idx = 0
    /\ pc' = "returned"
    /\ res' = [ok |-> TRUE, v |-> acc, calls |-> 0]
    /\ UNCHANGED <<call, coeffs, inv, frames, expr, passIn, x, mode, acc, idx>>

-----------------------------------------------------------------------------
(* Macro matching: the tokens after `$x:expr;` *)

\* The comma-separated `expr` fragments the matcher sees: a bracketed group
\* is a single array-literal expression.
Items(i) == IF i.form = "bracket" THEN <<Arr(i.cs)>> ELSE i.cs

\* ($x:expr; [$($coeffs:expr),+ $(,)?])
MHBracket(i) == ~i.letp /\ ~i.semi /\ i.form = "bracket" /\ Len(i.cs) >= 1
\* ($x:expr; [$($coeffs:expr),* $(,)?])
MEBracket(i) == ~i.letp /\ ~i.semi /\ i.form = "bracket"
\* ($x:expr; $a:expr $(,)?)
MOne(i) == ~i.letp /\ ~i.semi /\ Len(Items(i)) = 1
\* ($x:expr; $a:expr, $($rest:expr),+ $(,)?)
MHRec(i) == ~i.letp /\ ~i.semi /\ Len(Items(i)) >= 2
\* ($x:expr; $a0:expr, $a1:expr $(,)?)
METwo(i) == ~i.letp /\ ~i.semi /\ Len(Items(i)) = 2
\* ($x:expr; $($coeffs:expr),+ $(,)?)
MEStart(i) == ~i.letp /\ ~i.semi /\ Len(Items(i)) >= 1
\* (let $x:expr; $($t:tt)*)
MLet(i) == i.letp
\* ($x:expr; $a0:expr; $($out:expr),+)
MEOneLeft(i) == ~i.letp /\ i.semi /\ ~i.trail /\ Len(Items(i)) = 1 /\ Len(i.out) >= 1
\* ($x:expr; $a0:expr, $a1:expr; $($out:expr),+)
METwoLeft(i) == ~i.letp /\ i.semi /\ ~i.trail /\ Len(Items(i)) = 2 /\ Len(i.out) >= 1
\* ($x:expr; $a0:expr, $a1:expr, $($rest:expr),+; )
MEMoreFirst(i) == ~i.letp /\ i.semi /\ ~i.trail /\ Len(Items(i)) >= 3 /\ Len(i.out) = 0
\* ($x:expr; $a0:expr, $a1:expr, $($rest:expr),+; $($out:expr),+)
MEMore(i) == ~i.letp /\ i.semi /\ ~i.trail /\ Len(Items(i)) >= 3 /\ Len(i.out) >= 1

\* macro_rules! tries the rules in the order written and takes the first
\* that matches; "none" when no rule matches (a build error).
HornerRule(i) ==
    IF MHBracket(i) THEN "bracket"
    ELSE IF MOne(i) THEN "one"
    ELSE IF MHRec(i) THEN "rec"
    ELSE IF MLet(i) THEN "let"
    ELSE "none"

EstrinRule(i) ==
    IF MEBracket(i) THEN "bracket"
    ELSE IF MOne(i) THEN "one"
    ELSE IF METwo(i) THEN "two"
    ELSE IF MEStart(i) THEN "start"
    ELSE IF MLet(i) THEN "let"
    ELSE IF MEOneLeft(i) THEN "one_left"
    ELSE IF METwoLeft(i) THEN "two_left"
    ELSE IF MEMoreFirst(i) THEN "more_first"
    ELSE IF MEMore(i) THEN "more"
    ELSE "none"

Rule(name, i) == IF IsHorner(name) THEN HornerRule(i) ELSE EstrinRule(i)

-----------------------------------------------------------------------------
(* Macro expansion, one rule application per step *)

\* A frame is the expression a rule wrote around its recursive invocation.
\*   "add_mul":  $a + $x * <invocation>
\*   "mul_add":  $crate::mul_add(<invocation>, $x, $a)
\*   "let":      {{ let x = $a; <invocation> }}, x the k-th hygienic local
Frame(f, a, xe, k) == [f |-> f, a |-> a, x |-> xe, k |-> k]

\* Each expansion of a `let x = ...` rule has its own syntax context, so its
\* `x` is a local distinct from every earlier one.
FreshVar(fs) == Cardinality({j \in DOMAIN fs : fs[j].f = "let"}) + 1

InFrame(f, e) ==
    CASE f.f = "add_mul" -> Add(f.a, Mul(f.x, e))
      [] f.f = "mul_add" -> MulAdd(e, f.x, f.a)
      [] f.f = "let"     -> Block(f.k, f.a, e)

RECURSIVE Plug(_, _)
\* The whole expansion once the innermost invocation has expanded to e.
Plug(fs, e) ==
    IF Len(fs) = 0 THEN e
    ELSE Plug(SubSeq(fs, 1, Len(fs) - 1), InFrame(fs[Len(fs)], e))

\* A recursive step that multiplies by a fixed local instead of by $x.
HornerFrameLocal(name, xe, a) ==
    IF name = "horner!" THEN Frame("add_mul", a, Var(1), 0)
    ELSE Frame("mul_add", a, Var(1), 0)

\* A recursive step of horner! written with the fused form of horner_fma!.
HornerFrameFused(name, xe, a) == Frame("mul_add", a, xe, 0)

\* The recursive step of horner! / horner_fma! around the rest.
HornerFrame(name, xe, a) ==
    IF name = "horner!" THEN Frame("add_mul", a, xe, 0)
    ELSE Frame("mul_add", a, xe, 0)

\* A pair combined with its two coefficients exchanged.
PairSwapped(name, xe, a0, a1) ==
    IF name = "estrin!" THEN Add(a1, Mul(xe, a0))
    ELSE MulAdd(xe, a0, a1)

\* One pairwise combination of estrin! / estrin_fma!.
Pair(name, xe, a0, a1) ==
    IF name = "estrin!" THEN Add(a0, Mul(xe, a1))
    ELSE MulAdd(xe, a1, a0)

\* A `let` rule that hands on the caller's expression, not the local.
LetPointUnbound(fs) == Pt

\* The point handed to the inner invocation by a `let x = ...` rule: the
\* new local, `$crate::horner!(x; ...)`.
LetPoint(fs) == Var(FreshVar(fs))

\* A rule that hands on all its coefficients again instead of the rest.
RestAll(cs) == cs

\* $($rest),+ : the coefficients after the pair $a0, $a1.
Rest(cs) == Tail(Tail(cs))

\* A pass that rebinds the point without squaring it.
SquareForgotten(xe) == xe

\* `let x = $x*$x;`
Square(xe) == Mul(xe, xe)

Expanding(name) == pc = "expand" /\ call.name = name

Finish(e) ==
    /\ pc' = "expanded"
    /\ expr' = Plug(frames, e)
    /\ UNCHANGED <<call, coeffs, inv, frames, passIn, x, mode, res, acc, idx>>

Reinvoke(i, fs) ==
    /\ inv' = i
    /\ frames' = fs
    /\ UNCHANGED <<pc, call, coeffs, expr, x, mode, res, acc, idx>>

\* [..] => $crate::horner!($x; $($coeffs),*)
HornerBracket ==
    \E name \in {"horner!", "horner_fma!"} :
        /\ Expanding(name)
        /\ HornerRule(inv) = "bracket"
        /\ Reinvoke([inv EXCEPT !.form = "bare", !.trail = FALSE], frames)
        /\ UNCHANGED passIn

\* ($x:expr; $a:expr $(,)?) => $a
HornerOne ==
    \E name \in {"horner!", "horner_fma!"} :
        /\ Expanding(name)
        /\ HornerRule(inv) = "one"
        /\ Finish(Items(inv)[1])

\* $a + $x * horner!($x; rest)   /   mul_add(horner_fma!($x; rest), $x, $a)
HornerRec ==
    \E name \in {"horner!", "horner_fma!"} :
        /\ Expanding(name)
        /\ HornerRule(inv) = "rec"
        /\ Reinvoke([inv EXCEPT !.form = "bare", !.trail = FALSE,
                                !.cs = Tail(Items(inv))],
                    Append(frames, HornerFrame(name, inv.x, Items(inv)[1])))
        /\ UNCHANGED passIn

\* (let $x:expr; $($t:tt)*) => {{ let x = $x; $crate::horner!(x; $($t)*) }}
HornerLet ==
    \E name \in {"horner!", "horner_fma!"} :
        /\ Expanding(name)
        /\ HornerRule(inv) = "let"
        /\ Reinvoke([inv EXCEPT !.letp = FALSE, !.x = LetPoint(frames)],
                    Append(frames, Frame("let", inv.x, inv.x, FreshVar(frames))))
        /\ UNCHANGED passIn

\* [..] => $crate::estrin!($x; $($coeffs),*)
EstrinBracket ==
    \E name \in {"estrin!", "estrin_fma!"} :
        /\ Expanding(name)
        /\ EstrinRule(inv) = "bracket"
        /\ Reinvoke([inv EXCEPT !.form = "bare", !.trail = FALSE], frames)
        /\ UNCHANGED passIn

\* ($x:expr; $a:expr $(,)?) => $a
EstrinOne ==
    \E name \in {"estrin!", "estrin_fma!"} :
        /\ Expanding(name)
        /\ EstrinRule(inv) = "one"
        /\ Finish(Items(inv)[1])

\* ($x:expr; $a0:expr, $a1:expr $(,)?) => $a0 + $x * $a1  /  mul_add($x, $a1, $a0)
EstrinTwo ==
    \E name \in {"estrin!", "estrin_fma!"} :
        /\ Expanding(name)
        /\ EstrinRule(inv) = "two"
        /\ Finish(Pair(name, inv.x, Items(inv)[1], Items(inv)[2]))

\* ($x:expr; $($coeffs:expr),+ $(,)?) => $crate::estrin!($x; $($coeffs),+; )
EstrinStart ==
    \E name \in {"estrin!", "estrin_fma!"} :
        /\ Expanding(name)
        /\ EstrinRule(inv) = "start"
        /\ Reinvoke([inv EXCEPT !.form = "bare", !.trail = FALSE, !.cs = Items(inv),
                                !.semi = TRUE, !.out = <<>>],
                    frames)
        /\ passIn' = [x |-> inv.x, cs |-> Items(inv)]

\* (let $x:expr; $($t:tt)*) => {{ let x = $x; $crate::estrin!(x; $($t)*) }}
EstrinLet ==
    \E name \in {"estrin!", "estrin_fma!"} :
        /\ Expanding(name)
        /\ EstrinRule(inv) = "let"
        /\ Reinvoke([inv EXCEPT !.letp = FALSE, !.x = LetPoint(frames)],
                    Append(frames, Frame("let", inv.x, inv.x, FreshVar(frames))))
        /\ UNCHANGED passIn

\* one coefficient left:
\* {{ let x = $x*$x; $crate::estrin!(x; $($out),+, $a0) }}
EstrinOneLeft ==
    \E name \in {"estrin!", "estrin_fma!"} :
        /\ Expanding(name)
        /\ EstrinRule(inv) = "one_left"
        /\ Reinvoke([inv EXCEPT !.x = LetPoint(frames), !.semi = FALSE,
                                !.cs = Append(inv.out, inv.cs[1]), !.out = <<>>],
                    Append(frames, Frame("let", Square(inv.x), inv.x, FreshVar(frames))))
        /\ UNCHANGED passIn

\* two coefficients left:
\* {{ let x = $x*$x; $crate::estrin!(x; $($out),+, $a0 + $x * $a1) }}
EstrinTwoLeft ==
    \E name \in {"estrin!", "estrin_fma!"} :
        /\ Expanding(name)
        /\ EstrinRule(inv) = "two_left"
        /\ Reinvoke([inv EXCEPT !.x = LetPoint(frames), !.semi = FALSE,
                                !.cs = Append(inv.out, Pair(name, inv.x, inv.cs[1], inv.cs[2])),
                                !.out = <<>>],
                    Append(frames, Frame("let", Square(inv.x), inv.x, FreshVar(frames))))
        /\ UNCHANGED passIn

\* more coefficients left, nothing paired yet:
\* $crate::estrin!($x; $($rest),+; $a0 + $x * $a1)
EstrinMoreFirst ==
    \E name \in {"estrin!", "estrin_fma!"} :
        /\ Expanding(name)
        /\ EstrinRule(inv) = "more_first"
        /\ Reinvoke([inv EXCEPT !.cs = Rest(inv.cs),
                                !.out = <<Pair(name, inv.x, inv.cs[1], inv.cs[2])>>],
                    frames)
        /\ UNCHANGED passIn

\* more coefficients left:
\* $crate::estrin!($x; $($rest),+; $($out),+, $a0 + $x * $a1)
EstrinMore ==
    \E name \in {"estrin!", "estrin_fma!"} :
        /\ Expanding(name)
        /\ EstrinRule(inv) = "more"
        /\ Reinvoke([inv EXCEPT !.cs = Rest(inv.cs),
                                !.out = Append(inv.out, Pair(name, inv.x, inv.cs[1], inv.cs[2]))],
                    frames)
        /\ UNCHANGED passIn

\* No rule matches the invocation: the build fails, nothing is generated.
NoRule ==
    /\ pc = "expand"
    /\ Rule(call.name, inv) = "none"
    /\ pc' = "rejected"
    /\ UNCHANGED <<call, coeffs, inv, frames, expr, passIn, x, mode, res, acc, idx>>

\* The generated expression runs, at some point value, with T's arithmetic.
\* Only an expansion of numeric type runs as a polynomial value.
Evaluate ==
    /\ pc = "expanded"
    /\ IsNumeric(expr)
    /\ \E xv \in Points, m \in Modes :
        /\ x' = xv
        /\ mode' = m
        /\ res' = Eval(expr, Env0, xv, m)
    /\ pc' = "evaluated"
    /\ UNCHANGED <<call, coeffs, inv, frames, expr, passIn, acc, idx>>

-----------------------------------------------------------------------------
(* Specification *)

\* A use of a macro as written by the caller: `let` prefix or not, bare or
\* bracketed list of n >= 0 literal coefficients, optional trailing comma.
InitMacro ==
    \E name \in MacroNames, letp \in BOOLEAN, form \in {"bare", "bracket"},
       trail \in BOOLEAN, cs \in CoeffLists :
        /\ trail => Len(cs) >= 1
        /\ pc = "expand"
        /\ call = [kind |-> "macro", name |-> name, letp |-> letp,
                   form |-> form, trail |-> trail]
        /\ coeffs = cs
        /\ inv = [letp |-> letp, x |-> Pt, form |-> form,
                  cs |-> [j \in 1..Len(cs) |-> Lit(j, cs[j])],
                  trail |-> trail, semi |-> FALSE, out |-> <<>>]
        /\ frames = <<>>
        /\ expr = NoExpr
        /\ passIn = NoPass
        /\ x = 0
        /\ mode = "exact"
        /\ res = NoRes
        /\ acc = 0
        /\ idx = 0

\* A call horner(x, &coeffs) or horner_array(x, &coeffs), about to fold.
InitFn ==
    \E name \in FnNames, xv \in Points, m \in Modes, cs \in CoeffLists :
        /\ pc = "fold"
        /\ call = [kind |-> "fn", name |-> name, letp |-> FALSE,
                   form |-> "bare", trail |-> FALSE]
        /\ coeffs = cs
        /\ inv = NoInv
        /\ frames = <<>>
        /\ expr = NoExpr
        /\ passIn = NoPass
        /\ x = xv
        /\ mode = m
        /\ res = NoRes
        /\ acc = FoldInit(cs).acc
        /\ idx = FoldInit(cs).idx

Init == InitMacro \/ InitFn

Next ==
    \/ FoldStep
    \/ FoldReturn
    \/ HornerBracket
    \/ HornerOne
    \/ HornerRec
    \/ HornerLet
    \/ EstrinBracket
    \/ EstrinOne
    \/ EstrinTwo
    \/ EstrinStart
    \/ EstrinLet
    \/ EstrinOneLeft
    \/ EstrinTwoLeft
    \/ EstrinMoreFirst
    \/ EstrinMore
    \/ NoRule
    \/ Evaluate

Spec == Init /\ [][Next]_vars

-----------------------------------------------------------------------------
(* Properties *)

N == Len(coeffs)

RECURSIVE Pow(_, _)
Pow(b, k) == IF k = 0 THEN 1 ELSE b * Pow(b, k - 1)

RECURSIVE PolyValue(_, _)
\* sum over i of a_i * x^i, over the integers.
PolyValue(xv, cs) ==
    IF Len(cs) = 0 THEN 0
    ELSE PolyValue(xv, SubSeq(cs, 1, Len(cs) - 1)) + cs[Len(cs)] * Pow(xv, Len(cs) - 1)

RECURSIVE HornerForm(_, _)
\* c0 + x*(c1 + x*(c2 + ... + x*c(n-1))), over the integers, for n >= 1.
HornerForm(xv, cs) ==
    IF Len(cs) = 1 THEN cs[1]
    ELSE cs[1] + xv * HornerForm(xv, Tail(cs))

\* An integer as the type T holds it when nothing panicked.
InType(m, v) == IF m = "wrapping" THEN WrapI8(v) ELSE v

\* C1: for every nonempty literal coefficient list and every point, each of
\* horner!, horner_fma!, estrin! and estrin_fma! expands to a numeric
\* expression; over exact integers its evaluation always completes, and a
\* completed evaluation has the polynomial value sum a_i * x^i (reduced into
\* the type when the arithmetic wraps), so the four macros agree.
C1_MacrosAgreeOnPolyValue ==
    (call.kind = "macro" /\ N >= 1) =>
        /\ pc # "rejected"
        /\ pc \in {"expanded", "evaluated"} => IsNumeric(expr)
        /\ pc = "evaluated" =>
            /\ mode # "checked" => res.ok
            /\ res.ok => res.v = InType(mode, PolyValue(x, coeffs))

C1_Witness ==
    /\ pc = "evaluated"
    /\ call.name = "estrin_fma!"
    /\ coeffs = <<3, -1, 0, 3, -1>>
    /\ x = 2
    /\ mode = "exact"
    /\ res.ok
    /\ res.v = 9

\* C2: horner and horner_array visit the coefficients from the last index to
\* the first with an accumulator that starts at zero and becomes
\* acc*x + c_i: after the coefficients idx+1..n the accumulator is the Horner
\* form of that suffix, and the value returned for n >= 1 is
\* c0 + x*(c1 + ... + x*c(n-1)); horner(x, [c]) = c, horner(x, [a, b]) = a + x*b.
C2_HornerFold ==
    (call.kind = "fn" /\ pc \in {"fold", "returned"}) =>
        /\ idx \in 0..N
        /\ acc = IF idx = N THEN 0
                 ELSE InType(mode, HornerForm(x, SubSeq(coeffs, idx + 1, N)))
        /\ (pc = "returned" /\ N >= 1) =>
            /\ idx = 0
            /\ res.ok
            /\ res.v = InType(mode, HornerForm(x, coeffs))
            /\ N = 1 => res.v = coeffs[1]
            /\ (N = 2 /\ mode = "exact") => res.v = coeffs[1] + x * coeffs[2]

C2_Witness ==
    /\ pc = "returned"
    /\ call.name = "horner_array"
    /\ coeffs = <<3, -1, 0, 3, -1>>
    /\ x = 2
    /\ mode = "exact"
    /\ res.v = 9

\* C3: horner(x, []) and horner_array(x, []) return the additive identity 0
\* for every point, in every arithmetic; the empty input never panics.
C3_EmptyReturnsZero ==
    (call.kind = "fn" /\ N = 0) =>
        /\ pc \in {"fold", "returned"}
        /\ pc = "fold" => idx = 0
        /\ pc = "returned" => (res.ok /\ res.v = 0)

C3_Witness ==
    /\ pc = "returned"
    /\ call.name = "horner"
    /\ N = 0
    /\ x = 16
    /\ mode = "checked"
    /\ res.v = 0

\* C4: in the single-evaluation form (`let` prefix) of each macro, with
\* n >= 1 coefficients, bare or bracketed, the point expression occurs once
\* in the expansion, as the initialiser of the binding that opens it; every
\* other use reads that local or, in estrin!, a square bound from it; and
\* an evaluation evaluates the point expression exactly once.
C4_LetEvaluatesOnce ==
    (call.kind = "macro" /\ call.letp /\ N >= 1 /\ pc \in {"expanded", "evaluated"}) =>
        /\ expr.op = "block"
        /\ expr.init = Pt
        /\ CountOp(expr, "pt") = 1
        /\ frames[1] = Frame("let", Pt, Pt, 1)
        /\ \A j \in 2..Len(frames) :
              /\ frames[j].x # Pt
              /\ frames[j].f = "let" => frames[j].a = Mul(Var(j - 1), Var(j - 1))
        /\ pc = "evaluated" => res.calls = 1

C4_Witness ==
    /\ pc = "evaluated"
    /\ call.name = "estrin!"
    /\ call.letp
    /\ call.form = "bracket"
    /\ N = 5
    /\ res.ok
    /\ res.calls = 1
    /\ Len(frames) = 3

\* C5 as stated: in the plain form the point expression is invoked once per
\* occurrence in the unrolled expression, and more than once whenever n > 1.
C5_PlainMoreThanOnceFromTwo ==
    (call.kind = "macro" /\ ~call.letp /\ pc = "evaluated" /\ res.ok) =>
        /\ res.calls = CountOp(expr, "pt")
        /\ N >= 2 => res.calls > 1

\* C5, amended: in the plain form an evaluation that completes invokes the
\* point expression once per occurrence in the unrolled expression (one that
\* panics on overflow, at most that often); that is never for n = 1, exactly
\* once for n = 2 and more than once for every n >= 3.
C5_PlainMoreThanOnceFromThree ==
    (call.kind = "macro" /\ ~call.letp /\ pc = "evaluated") =>
        /\ res.calls <= CountOp(expr, "pt")
        /\ res.ok => res.calls = CountOp(expr, "pt")
        /\ N = 1 => CountOp(expr, "pt") = 0
        /\ N = 2 => CountOp(expr, "pt") = 1
        /\ N >= 3 => CountOp(expr, "pt") > 1

C5_Witness ==
    /\ pc = "evaluated"
    /\ call.name = "horner_fma!"
    /\ ~call.letp
    /\ N = 3
    /\ res.ok
    /\ res.calls = 2

\* C6 as stated: a macro invocation with zero coefficients, bare (`x;`) or
\* bracketed (`x; []`), with or without `let`, never yields an expression.
C6_EmptyListRejected ==
    (call.kind = "macro" /\ N = 0) => pc \notin {"expanded", "evaluated"}

\* C7 as stated: a call of horner (or horner_array) never panics.
C7_NeverPanics ==
    call.kind = "fn" => pc # "panicked"

\* C7, amended: the fold stops after at most n closure applications; it
\* panics only in a build with overflow checks, at the coefficient whose
\* acc*x or acc*x + c_i leaves the range of the type; otherwise the call
\* returns, and the value returned by a fixed-width type is in its range.
C7_PanicsOnlyOnCheckedOverflow ==
    call.kind = "fn" =>
        /\ idx \in 0..N
        /\ pc = "panicked" =>
            /\ mode = "checked"
            /\ idx >= 1
            /\ ~InRange(acc * x) \/ ~InRange(acc * x + coeffs[idx])
        /\ (pc = "fold" /\ mode = "checked") => InRange(acc)
        /\ (pc = "returned" /\ mode # "exact") => (res.ok /\ InRange(res.v))

C7_Witness ==
    /\ pc = "panicked"
    /\ call.name = "horner"
    /\ mode = "checked"
    /\ x = 16
    /\ coeffs = <<0, 0, 3>>
    /\ idx = 1

\* C8: the plain expansion of horner! with n >= 1 coefficients is a
\* straight-line expression (no block, no call) with n-1 multiplications,
\* n-1 additions, every coefficient once and the point expression n-1 times;
\* one coefficient expands to itself; an evaluation evaluates the point
\* expression n-1 times (2 times for 3 coefficients, 0 for one).
C8_PlainHornerShape ==
    (call.name = "horner!" /\ ~call.letp /\ N >= 1 /\ pc \in {"expanded", "evaluated"}) =>
        /\ CountOp(expr, "mul") = N - 1
        /\ CountOp(expr, "add") = N - 1
        /\ CountOp(expr, "pt") = N - 1
        /\ CountOp(expr, "block") = 0
        /\ CountOp(expr, "mul_add") = 0
        /\ CountOp(expr, "var") = 0
        /\ \A i \in 1..N : CountLit(expr, i) = 1
        /\ N = 1 => expr = Lit(1, coeffs[1])
        /\ pc = "evaluated" => res.calls = N - 1

C8_Witness ==
    /\ pc = "evaluated"
    /\ call.name = "horner!"
    /\ ~call.letp
    /\ N = 3
    /\ res.ok
    /\ res.calls = 2

\* The term an Estrin pass of the macro named name forms from the pair a, b
\* with the point xe.
PairTerm(name, xe, a, b) ==
    IF name = "estrin!" THEN [op |-> "add", l |-> a, r |-> [op |-> "mul", l |-> xe, r |-> b]]
    ELSE [op |-> "mul_add", s |-> xe, a |-> b, b |-> a]

SquareFrames == {j \in DOMAIN frames : frames[j].f = "let" /\ frames[j].a.op = "mul"}

\* C9: a reduction pass of estrin! / estrin_fma! starts only on a list of
\* n >= 3 coefficients; when it completes, the new list has ceil(n/2) terms,
\* in index order b_i = a_(2i) + x*a_(2i+1) (mul_add(x, a_(2i+1), a_(2i)) for
\* estrin_fma!) formed with the point of that level, an odd n carrying its
\* last coefficient through unchanged; the pass binds x*x once, in the
\* innermost block, and the new list is expanded with that local as its
\* point.  Lists of one or two coefficients are expanded without a pass and
\* without a squaring.
C9_EstrinPass ==
    (call.kind = "macro" /\ IsEstrin(call.name)) =>
        /\ (Len(passIn.cs) = 0) => (SquareFrames = {} /\ ~inv.semi)
        /\ (pc \in {"expanded", "evaluated"} /\ N \in {1, 2}) =>
              (/\ Len(passIn.cs) = 0
               /\ CountOp(expr, "mul") + CountOp(expr, "mul_add") = N - 1
               /\ CountOp(expr, "block") = IF call.letp THEN 1 ELSE 0)
        /\ (Len(passIn.cs) > 0) => Len(passIn.cs) >= 3
        /\ (Len(passIn.cs) > 0 /\ ~inv.semi) =>
              LET n == Len(passIn.cs)
                  top == frames[Len(frames)]
              IN  /\ Len(inv.cs) = (n + 1) \div 2
                  /\ \A i \in 1..(n \div 2) :
                        inv.cs[i] = PairTerm(call.name, passIn.x,
                                             passIn.cs[2 * i - 1], passIn.cs[2 * i])
                  /\ (n % 2 = 1) => inv.cs[(n + 1) \div 2] = passIn.cs[n]
                  /\ top.f = "let"
                  /\ top.a = [op |-> "mul", l |-> passIn.x, r |-> passIn.x]
                  /\ inv.x = Var(top.k)
                  /\ inv.x # passIn.x
                  /\ Cardinality({j \in DOMAIN frames : frames[j].k = top.k}) = 1
                  /\ Len(inv.out) = 0

C9_Witness ==
    /\ pc = "expand"
    /\ call.name = "estrin_fma!"
    /\ N = 5
    /\ ~inv.semi
    /\ Len(passIn.cs) = 5
    /\ Len(inv.cs) = 3
    /\ inv.cs[3] = Lit(5, coeffs[5])
    /\ Cardinality(SquareFrames) = 1

\* A natural number that bounds the rule applications still to come.
Measure(p, i) ==
    IF p # "expand" THEN 0
    ELSE 1 + 4 * Len(i.cs) + 6 * Len(i.out)
           + (IF i.semi THEN 0 ELSE 1)
           + (IF i.letp THEN 2 ELSE 0)
           + (IF i.form = "bracket" THEN 1 ELSE 0)

\* One step taken while estrin! / estrin_fma! expands a nonempty list.
EstrinStepShrinks ==
    (call.kind = "macro" /\ IsEstrin(call.name) /\ N >= 1 /\ pc = "expand") =>
        /\ EstrinRule(inv) # "none"
        /\ pc' \in {"expand", "expanded"}
        /\ Measure(pc', inv') < Measure(pc, inv)
        /\ (inv.semi /\ inv'.semi) => Len(inv'.cs) < Len(inv.cs)
        /\ (inv.semi /\ ~inv'.semi) =>
              /\ Len(passIn.cs) >= 3
              /\ Len(inv'.cs) = (Len(passIn.cs) + 1) \div 2
              /\ Len(inv'.cs) < Len(passIn.cs)
        /\ pc' = "expanded" => (~inv.semi /\ Len(inv.cs) \in {1, 2})

\* C10: the rule-by-rule expansion of estrin! / estrin_fma! on a nonempty
\* list terminates: every invocation met has a matching rule, every rule
\* application lowers a natural-number measure, within a pass it shortens
\* the list of coefficients not yet paired, a completed pass takes n >= 3
\* coefficients to ceil(n/2) < n, and the rule that ends the expansion is
\* the one- or two-coefficient rule.
C10_EstrinTerminates == [][EstrinStepShrinks]_vars

C10_Witness ==
    /\ pc = "expanded"
    /\ call.name = "estrin!"
    /\ N = 5
    /\ Len(inv.cs) = 2
    /\ Cardinality(SquareFrames) = 2

RECURSIVE PtInLitPairs(_)
\* Occurrences of the point expression that are the point of a combination
\* of two literal coefficients, a + pt*b or mul_add(pt, b, a).
PtInLitPairs(e) ==
    CASE e.op = "add" ->
            IF e.l.op = "lit" /\ e.r.op = "mul" /\ e.r.l = Pt /\ e.r.r.op = "lit"
            THEN 1 ELSE PtInLitPairs(e.l) + PtInLitPairs(e.r)
      [] e.op = "mul" -> PtInLitPairs(e.l) + PtInLitPairs(e.r)
      [] e.op = "mul_add" ->
            IF e.s = Pt /\ e.a.op = "lit" /\ e.b.op = "lit"
            THEN 1 ELSE PtInLitPairs(e.s) + PtInLitPairs(e.a) + PtInLitPairs(e.b)
      [] e.op = "block" -> PtInLitPairs(e.init) + PtInLitPairs(e.body)
      [] OTHER -> 0

\* C11: the plain expansion of estrin! / estrin_fma! with n >= 3 coefficients
\* holds the caller's point expression floor(n/2) + 2 times: twice in the
\* first squaring x*x that opens the expansion and once in each first-level
\* pair of literal coefficients; the deeper squarings square the previous
\* local and hold no occurrence.  An evaluation that completes evaluates it
\* that many times (never more).  With n = 2 it is evaluated once, with
\* n = 1 not at all; plain horner! with 3 coefficients evaluates it twice.
C11_PlainEstrinPointCount ==
    (call.kind = "macro" /\ ~call.letp /\ N >= 1 /\ pc \in {"expanded", "evaluated"}) =>
        /\ (IsEstrin(call.name) /\ N >= 3) =>
            /\ CountOp(expr, "pt") = (N \div 2) + 2
            /\ expr.op = "block"
            /\ expr.init = [op |-> "mul", l |-> Pt, r |-> Pt]
            /\ CountOp(expr.body, "pt") = N \div 2
            /\ PtInLitPairs(expr.body) = N \div 2
            /\ \A j \in 2..Len(frames) :
                  /\ frames[j].f = "let"
                  /\ frames[j].a = [op |-> "mul", l |-> Var(j - 1), r |-> Var(j - 1)]
            /\ pc = "evaluated" =>
                  /\ res.calls <= (N \div 2) + 2
                  /\ res.ok => res.calls = (N \div 2) + 2
        /\ (IsEstrin(call.name) /\ N = 2) =>
            /\ CountOp(expr, "pt") = 1
            /\ pc = "evaluated" => res.calls = 1
        /\ (IsEstrin(call.name) /\ N = 1) =>
            /\ CountOp(expr, "pt") = 0
            /\ pc = "evaluated" => res.calls = 0
        /\ (call.name = "horner!" /\ N = 3 /\ pc = "evaluated") => res.calls = 2

C11_Witness ==
    /\ pc = "evaluated"
    /\ call.name = "estrin!"
    /\ ~call.letp
    /\ N = 5
    /\ Len(frames) = 2
    /\ res.ok
    /\ res.calls = 4

====
